---------------------------- MODULE Spec2Model ----------------------------
(***************************************************************************)
(* A model of documind's segmentation-and-indexing pipeline:               *)
(*   app/document_loader.py, app/document_processor.py,                    *)
(*   app/text_chunker.py, app/embeddings.py, app/vector_store.py and       *)
(*   app/ingestion/pipeline.py.                                            *)
(*                                                                         *)
(* Python values are modelled as follows.                                  *)
(*   str        a sequence of atoms (characters, or indivisible fragments  *)
(*              such as "rfc" or "=="); + and f-strings are \o             *)
(*   Optional   [isNone |-> BOOLEAN, s |-> str]                            *)
(*   dict       a record; d[k] on a missing key raises KeyError,           *)
(*              d.get(k, default) is Get(d, k, default)                    *)
(*   list       a sequence                                                 *)
(*   a call     Ok(value) or Raise(exception type, message)                *)
(***************************************************************************)
EXTENDS Integers, Sequences, FiniteSets, TLC

VARIABLES
    dir,         \* the file system under the root: what os.walk lists, in order
    pc,          \* index_directory's position: "idle" | "loop" | "raised"
    all_files,   \* index_directory: the discovered supported files
    idx,         \* index_directory: 1-based position of the next file
    results,     \* index_directory: the per-file result entries so far
    summaries,   \* the summaries index_directory has returned, one per run
    collection,  \* the Milvus collection: the rows inserted so far
    calls,       \* external calls issued by the current (or last) operation
    chunker,     \* the DocumentChunker the documents share: its attributes
    loaded,      \* the paths the current (or last) operation had loaded
    ret          \* what the last directly called operation returned or raised

vars ==
    <<dir, pc, all_files, idx, results, summaries, collection, calls, chunker,
      loaded, ret>>

-----------------------------------------------------------------------------
(* Bounds of the model *)

MaxFiles == 3      \* files in the directory
MaxRuns == 2       \* index_directory runs over the same directory
MaxTextLen == 3    \* characters of a text handed to chunk() directly
MaxRows == 2       \* rows the collection holds
MaxBatch == 2      \* chunks in one insert_chunks batch
MaxChunkIdx == 11  \* chunk index handed to _generate_chunk_id
MaxDocIdLen == 2   \* characters of a doc_id handed to _generate_chunk_id
MaxChunkSize == 2   \* chunk_size handed to a constructor
ChunkSize == 2     \* the chunker's chunk_size (words)
Overlap == 1       \* the chunker's overlap (words), below ChunkSize

-----------------------------------------------------------------------------
(* Python values *)

Ok(v) == [ok |-> TRUE, value |-> v]
Raise(t, m) == [ok |-> FALSE, exc |-> t, msg |-> m]

None == [isNone |-> TRUE, s |-> <<>>]
Some(s) == [isNone |-> FALSE, s |-> s]
\* truthiness of an Optional[str]: None and "" are falsy
Truthy(o) == ~o.isNone /\ Len(o.s) > 0

Get(d, k, default) == IF k \in DOMAIN d THEN d[k] ELSE default

Q == "\""          \* the double-quote character

RECURSIVE Join(_, _)
Join(parts, sep) ==
    IF Len(parts) = 0 THEN <<>>
    ELSE IF Len(parts) = 1 THEN parts[1]
    ELSE parts[1] \o sep \o Join(Tail(parts), sep)

RECURSIVE SeqsUpTo(_, _)
\* every sequence over S of length at most n
SeqsUpTo(S, n) ==
    IF n = 0 THEN {<<>>}
    ELSE LET shorter == SeqsUpTo(S, n - 1)
         IN shorter \cup {Append(s, x) : s \in shorter, x \in S}

Range(s) == {s[i] : i \in 1..Len(s)}

\* the exception types raised in this code; all derive from Exception
ExceptionSubclasses ==
    {"TypeError", "ValueError", "KeyError", "AttributeError", "RuntimeError",
     "OSError", "UnicodeDecodeError"}

-----------------------------------------------------------------------------
(* app/document_loader.py *)

\* A path is [folders, hidden, stem, ext, rfc]: the directory names below the
\* root, whether the file name starts with '.', the name without its extension,
\* the extension without its dot, and the digits of an "rfc<digits>" in the
\* name (<<>> when the name holds none).  A file is a path with what reading
\* it gives: [path, readable, text].

\* str.lower() on the names the model uses
Lower(s) ==
    CASE s = "TXT" -> "txt"
      [] s = "RFCs" -> "rfcs"
      [] OTHER -> s

FOLDER_TYPE_MAPPING ==
    [documentations |-> "documentation", documentation |-> "documentation",
     rfc |-> "rfc", rfcs |-> "rfc",
     research_papers |-> "research", research |-> "research",
     papers |-> "research",
     software_manuals |-> "manual", manuals |-> "manual", manual |-> "manual"]

\* the first folder of the path that the mapping knows decides; a file name
\* carries an extension here and is never a key of the mapping
_extract_doc_type(path) ==
    LET known == {i \in 1..Len(path.folders) :
                    Lower(path.folders[i]) \in DOMAIN FOLDER_TYPE_MAPPING}
    IN IF known = {} THEN "documentation"
       ELSE LET first == CHOOSE i \in known : \A j \in known : i <= j
            IN FOLDER_TYPE_MAPPING[Lower(path.folders[first])]

_extract_source(path) ==
    LET known == {i \in 1..Len(path.folders) :
                    Lower(path.folders[i]) \in DOMAIN FOLDER_TYPE_MAPPING}
        nparts == Len(path.folders) + 1
    IN IF _extract_doc_type(path) = "rfc" /\ path.rfc # <<>>
       THEN <<"rfc">> \o path.rfc
       ELSE IF known # {} /\
               (CHOOSE i \in known : \A j \in known : i <= j) < nparts - 1
       THEN <<Lower(path.folders[
                 (CHOOSE i \in known : \A j \in known : i <= j) + 1])>>
       ELSE <<Lower(path.stem)>>

FileName(path) ==
    (IF path.hidden THEN <<".">> ELSE <<>>) \o <<path.stem, ".", path.ext>>

\* str(path): used in messages and as the result's file_path
PathStr(path) == path.folders \o FileName(path)

\* Reading the file: the text, or the error the reader raises.  load_pdf and
\* load_docx wrap the reader's error in a ValueError; load_txt and load_md
\* let open()/read() raise.
ReadError == <<"cannot read file">>

load_pdf(file) ==
    IF file.readable THEN Ok(file.text)
    ELSE Raise("ValueError", <<"Error reading PDF: ">> \o ReadError)

load_txt(file) ==
    IF file.readable THEN Ok(file.text)
    ELSE Raise("UnicodeDecodeError", ReadError)

load_docx(file) ==
    IF file.readable THEN Ok(file.text)
    ELSE Raise("ValueError", <<"Error reading DOCX: ">> \o ReadError)

load_md(file) ==
    IF file.readable THEN Ok(file.text)
    ELSE Raise("OSError", ReadError)

load(file) ==
    LET extension == Lower(file.path.ext)
    IN CASE extension = "pdf" -> load_pdf(file)
         [] extension = "txt" -> load_txt(file)
         [] extension = "docx" -> load_docx(file)
         [] extension = "md" -> load_md(file)
         [] OTHER -> Raise("ValueError",
                           <<"Unsupported file format: ">> \o PathStr(file.path))

get_metadata(path) ==
    [doc_type |-> <<_extract_doc_type(path)>>,
     source |-> _extract_source(path),
     file_path |-> PathStr(path),
     file_name |-> FileName(path)]

-----------------------------------------------------------------------------
(* app/utils.py and app/document_processor.py *)

\* The characters of a text: a letter, a space and a line break.
TextChars == {"a", " ", "\n"}
Whitespace == {" ", "\n"}

RECURSIVE Words(_)
\* str.split(): the maximal runs of non-whitespace characters
Words(text) ==
    IF text = <<>> THEN <<>>
    ELSE IF Head(text) \in Whitespace THEN Words(Tail(text))
    ELSE LET rest == Words(Tail(text))
         IN IF Len(text) > 1 /\ text[2] \notin Whitespace
            THEN <<<<Head(text)>> \o Head(rest)>> \o Tail(rest)
            ELSE <<<<Head(text)>>>> \o rest

count_words(text) == IF text = <<>> THEN 0 ELSE Len(Words(text))

RECURSIVE LStrip(_)
LStrip(s) ==
    IF s # <<>> /\ Head(s) \in Whitespace THEN LStrip(Tail(s)) ELSE s

RECURSIVE RStrip(_)
RStrip(s) ==
    IF s # <<>> /\ s[Len(s)] \in Whitespace
    THEN RStrip(SubSeq(s, 1, Len(s) - 1)) ELSE s

Strip(s) == RStrip(LStrip(s))

RECURSIVE SplitLines(_)
\* str.split("\n")
SplitLines(s) ==
    IF \A i \in 1..Len(s) : s[i] # "\n" THEN <<s>>
    ELSE LET k == CHOOSE i \in 1..Len(s) :
                    s[i] = "\n" /\ \A j \in 1..(i - 1) : s[j] # "\n"
         IN <<SubSeq(s, 1, k - 1)>> \o SplitLines(SubSeq(s, k + 1, Len(s)))

RECURSIVE CollapseRuns(_, _, _)
\* re.sub: every run of more than `keep` characters c becomes `keep` of them
CollapseRuns(s, c, keep) ==
    IF Len(s) <= keep THEN s
    ELSE IF \A i \in 1..(keep + 1) : s[i] = c
    THEN CollapseRuns(Tail(s), c, keep)
    ELSE <<Head(s)>> \o CollapseRuns(Tail(s), c, keep)

\* DocumentProcessor.__init__(self, text)
DocumentProcessorParams == {"text"}

\* DocumentProcessor(text, **kwargs): a keyword the signature does not name is
\* a TypeError
NewDocumentProcessor(text, kwargs) ==
    IF kwargs \subseteq DocumentProcessorParams
    THEN Ok([kind |-> "DocumentProcessor", text |-> text])
    ELSE Raise("TypeError",
               <<"__init__() got an unexpected keyword argument">>)

\* A method returns self (the processor with its new text) or, on an empty
\* text, the str "".
StrObject(s) == [kind |-> "str", text |-> s]

clean_whitespace(self) ==
    IF self.text = <<>> THEN StrObject(<<>>)
    ELSE LET lines == SplitLines(self.text)
             stripped == [i \in 1..Len(lines) |-> Strip(lines[i])]
             joined == Join(stripped, <<"\n">>)
         IN [self EXCEPT !.text =
                CollapseRuns(CollapseRuns(joined, " ", 1), "\n", 2)]

\* NFKC, the quote/dash replacements and the control-character filter leave
\* every character of TextChars as it is
remove_special_characters(self) ==
    IF self.text = <<>> THEN StrObject(<<>>)
    ELSE self

\* no line of a text over TextChars starts with '#', is upper case, holds '|'
\* or a tab, or starts with a bullet or a number: every line is only stripped
preserve_structure(self) ==
    IF self.text = <<>> THEN StrObject(<<>>)
    ELSE LET lines == SplitLines(self.text)
         IN [self EXCEPT !.text =
                Join([i \in 1..Len(lines) |-> Strip(lines[i])], <<"\n">>)]

\* obj.method(): a str has none of the processor's methods
CallMethod(obj, name) ==
    IF ~obj.ok THEN obj
    ELSE IF obj.value.kind # "DocumentProcessor"
    THEN Raise("AttributeError",
               <<"'str' object has no attribute ", name>>)
    ELSE Ok(CASE name = "clean_whitespace" -> clean_whitespace(obj.value)
              [] name = "remove_special_characters" ->
                    remove_special_characters(obj.value)
              [] OTHER -> preserve_structure(obj.value))

\* a text over TextChars holds no '.', '!' or '?': its sentence count is 1
extract_metadata(self, doc_id, doc_name, doc_path) ==
    IF self.text = <<>>
    THEN [doc_id |-> doc_id, doc_name |-> doc_name, doc_path |-> doc_path,
          word_count |-> 0, char_count |-> 0, sentence_count |-> 0]
    ELSE [doc_id |-> doc_id, doc_name |-> doc_name, doc_path |-> doc_path,
          word_count |-> Len(Words(self.text)),
          char_count |-> Len(SelectSeq(self.text,
                                       LAMBDA c : c \notin Whitespace)),
          sentence_count |-> 1]

-----------------------------------------------------------------------------
(* app/text_chunker.py *)

HashLen == 8       \* hexdigest()[:8]
DigestLen == 64    \* hex characters of a sha256 digest

HexDigit(n) == <<"0", "1", "2", "3", "4", "5", "6", "7", "8", "9">>[n + 1]

RECURSIVE Digits(_)
\* str(n) of a non-negative int
Digits(n) == IF n < 10 THEN <<HexDigit(n)>>
             ELSE Digits(n \div 10) \o <<HexDigit(n % 10)>>

\* hashlib.sha256(content.encode()).hexdigest(), as a stand-in hash of the
\* same shape: DigestLen hex characters decided by the content.  Contents of
\* lengths 1 and 3 differ in the digest and agree on its first HashLen
\* characters; contents of equal length collide outright.
Sha256Hex(content) ==
    LET h == Len(content) % 4
    IN [i \in 1..DigestLen |->
          IF i <= HashLen THEN HexDigit(h % 2) ELSE HexDigit(h)]

\* a chunk id without the content hash: the document id and the position
_generate_chunk_id_NoHash(doc_id, chunk_idx, content) ==
    doc_id \o <<"_", "c", "h", "u", "n", "k", "_">> \o Digits(chunk_idx)

_generate_chunk_id(doc_id, chunk_idx, content) ==
    LET content_hash == SubSeq(Sha256Hex(content), 1, HashLen)
    IN doc_id \o <<"_", "c", "h", "u", "n", "k", "_">> \o Digits(chunk_idx)
              \o <<"_">> \o content_hash

\* The constructor of langchain's RecursiveCharacterTextSplitter, the one
\* check on the way to a chunker: it refuses a chunk_overlap larger than
\* chunk_size ("Got a larger chunk overlap (..) than chunk size (..), should
\* be smaller.") and takes one equal to it.
RecursiveCharacterTextSplitter(chunk_size, chunk_overlap) ==
    IF chunk_overlap > chunk_size
    THEN Raise("ValueError", <<"Got a larger chunk overlap than chunk size">>)
    ELSE Ok([chunk_size |-> chunk_size, chunk_overlap |-> chunk_overlap])

\* DocumentChunker.__init__: the chunker with its attributes, or what the
\* splitter's constructor raises
DocumentChunker(chunk_size, overlap) ==
    LET splitter == RecursiveCharacterTextSplitter(chunk_size, overlap)
    IN IF ~splitter.ok THEN splitter
       ELSE Ok([chunk_size |-> chunk_size, overlap |-> overlap,
                separators |->
                  <<"\n\n", "\n", ". ", "! ", "? ", "; ", ", ", " ", "">>,
                splitter |-> splitter.value])

\* self.<name>
GetAttr(self, name) ==
    IF name \in DOMAIN self THEN Ok(self[name])
    ELSE Raise("AttributeError",
               <<"'DocumentChunker' object has no attribute ", name>>)

RECURSIVE Windows(_, _, _, _)
\* words[start..] in windows of `size` words, each starting size - overlap
\* words after the one before; the splitter keeps fewer than `size` words
\* of a window for the next, so a window starts at least one word on
Windows(words, start, size, overlap) ==
    LET step == IF overlap < size THEN size - overlap ELSE 1
    IN IF start + size - 1 >= Len(words)
       THEN <<Join(SubSeq(words, start, Len(words)), <<" ">>)>>
       ELSE <<Join(SubSeq(words, start, start + size - 1), <<" ">>)>>
            \o Windows(words, start + step, size, overlap)

\* RecursiveCharacterTextSplitter.split_text with length_function =
\* count_words, on the text's words: no chunk for a text without words, else
\* chunks of chunk_size words that share chunk_overlap words.
split_text(splitter, text) ==
    IF Words(text) = <<>> THEN <<>>
    ELSE Windows(Words(text), 1, splitter.chunk_size, splitter.chunk_overlap)

\* the keys chunk() reads with metadata[key], in the order it reads them
ChunkMetadataKeys ==
    <<"doc_name", "doc_type", "source", "doc_path", "word_count">>

\* one iteration of chunk()'s loop, for the i-th chunk (chunk_index i - 1)
ChunkObject(self, metadata, chunks, i) ==
    LET doc_id == Get(metadata, "doc_id", <<"unknown">>)
        chunk_id == _generate_chunk_id(doc_id, i - 1, chunks[i])
        missing == {k \in 1..Len(ChunkMetadataKeys) :
                      ChunkMetadataKeys[k] \notin DOMAIN metadata}
        self_doc_id == GetAttr(self, "doc_id")
    IN IF missing # {}
       THEN Raise("KeyError",
                  <<ChunkMetadataKeys[CHOOSE k \in missing :
                                         \A j \in missing : k <= j]>>)
       ELSE IF ~self_doc_id.ok THEN self_doc_id
       ELSE Ok([chunk_id |-> chunk_id,
                doc_id |-> self_doc_id.value,
                content |-> chunks[i],
                char_count |-> Len(chunks[i]),
                word_count |-> count_words(chunks[i]),
                metadata |->
                  [doc_name |-> metadata.doc_name,
                   doc_type |-> metadata.doc_type,
                   source |-> metadata.source,
                   doc_path |-> metadata.doc_path,
                   word_count_at_source |-> metadata.word_count,
                   chunk_index |-> i - 1,
                   chunk_size |-> self.chunk_size,
                   overlap |-> self.overlap,
                   total_chunks |-> Len(chunks)]])

chunk(self, text, metadata) ==
    IF text = <<>> THEN Ok(<<>>)
    ELSE LET chunks == split_text(self.splitter, text)
             raising == {i \in 1..Len(chunks) :
                           ~ChunkObject(self, metadata, chunks, i).ok}
         IN IF raising # {}
            THEN ChunkObject(self, metadata, chunks,
                             CHOOSE i \in raising : \A j \in raising : i <= j)
            ELSE Ok([i \in 1..Len(chunks) |->
                       ChunkObject(self, metadata, chunks, i).value])

-----------------------------------------------------------------------------
\* the attributes of self that chunk() reads
chunk_reads(self, text, metadata) ==
    IF text = <<>> THEN {}
    ELSE IF split_text(self.splitter, text) = <<>> THEN {"splitter"}
    ELSE IF \E k \in 1..Len(ChunkMetadataKeys) :
              ChunkMetadataKeys[k] \notin DOMAIN metadata
    THEN {"splitter"}
    ELSE {"splitter", "chunk_size", "overlap", "doc_id"}

(* app/embeddings.py *)

EmbeddingDim == 2     \* the model's dimension, scaled down from 1536
EmbedBatchSize == 2   \* generate_embeddings_batch's batch_size, scaled down

\* what the embedding service returns for one text
Embed(text) == [i \in 1..EmbeddingDim |-> Len(text)]

\* generate_embedding on one text: [out, calls].  svcOk: the service answers.
generate_embedding(text, svcOk) ==
    IF text = <<>> \/ Strip(text) = <<>>
    THEN [out |-> Raise("ValueError", <<"Text cannot be empty">>),
          calls |-> <<>>]
    ELSE LET call == [svc |-> "embeddings.create", input |-> <<text>>,
                      ok |-> svcOk]
         IN IF svcOk
            THEN [out |-> Ok(Embed(text)), calls |-> <<call>>]
            ELSE [out |-> Raise("RuntimeError",
                                <<"Failed to generate embedding: ",
                                  "service error">>),
                  calls |-> <<call>>]

RECURSIVE EmbedBatches(_, _, _, _)
\* The loop of generate_embeddings_batch from the k-th service call on:
\* [out, calls].  failAt is the service call that fails (0: none does).
EmbedBatches(texts, batch_size, k, failAt) ==
    IF texts = <<>> THEN [out |-> Ok(<<>>), calls |-> <<>>]
    ELSE LET n == IF Len(texts) < batch_size THEN Len(texts) ELSE batch_size
             batch == SubSeq(texts, 1, n)
             call == [svc |-> "embeddings.create", input |-> batch,
                      ok |-> k # failAt]
             rest == EmbedBatches(SubSeq(texts, n + 1, Len(texts)),
                                  batch_size, k + 1, failAt)
         IN IF k = failAt
            THEN [out |-> Raise("RuntimeError",
                                <<"Failed to generate batch embeddings: ",
                                  "service error">>),
                  calls |-> <<call>>]
            ELSE [out |-> IF rest.out.ok
                          THEN Ok([i \in 1..n |-> Embed(batch[i])]
                                  \o rest.out.value)
                          ELSE rest.out,
                  calls |-> <<call>> \o rest.calls]

\* a generate_embeddings_batch that sends all the texts in one request
generate_embeddings_batch_OneCall(texts, batch_size, failAt) ==
    EmbedBatches(texts, Len(texts) + 1, 1, failAt)

generate_embeddings_batch(texts, batch_size, failAt) ==
    EmbedBatches(texts, batch_size, 1, failAt)

\* zip(chunks, embeddings): chunk["embedding"] = embedding
WithEmbedding(chunk_, embedding) ==
    [k \in DOMAIN chunk_ \cup {"embedding"} |->
        IF k = "embedding" THEN embedding ELSE chunk_[k]]

embed_chunks(chunks, failAt) ==
    IF chunks = <<>> THEN [out |-> Ok(<<>>), calls |-> <<>>]
    ELSE LET texts == [i \in 1..Len(chunks) |->
                         Get(chunks[i], "content", <<>>)]
             got == generate_embeddings_batch(texts, EmbedBatchSize, failAt)
         IN IF ~got.out.ok THEN got
            ELSE [out |-> Ok([i \in 1..Len(chunks) |->
                               WithEmbedding(chunks[i], got.out.value[i])]),
                  calls |-> got.calls]

-----------------------------------------------------------------------------
(* app/vector_store.py *)

DOC_TYPES == {<<"documentation">>, <<"rfc">>, <<"research">>, <<"manual">>}

\* The store's filter language, as far as this client uses it: clauses
\* <field> == "<value>" joined by &&.  An expression is a str whose atoms are
\* field names, ==, &&, the double quote and the characters of values; the
\* spaces of the f-strings are left out.
FilterFields == {"doc_type", "source", "doc_id"}

RECURSIVE ParseClauses(_, _)
\* the clauses of expr from position i on: [ok, clauses], ok FALSE when the
\* expression is malformed
ParseClauses(expr, i) ==
    IF i + 3 > Len(expr) \/ expr[i] \notin FilterFields
       \/ expr[i + 1] # "==" \/ expr[i + 2] # Q
       \/ \A j \in (i + 3)..Len(expr) : expr[j] # Q
    THEN [ok |-> FALSE, clauses |-> <<>>]
    ELSE LET close == CHOOSE j \in (i + 3)..Len(expr) :
                        expr[j] = Q /\ \A m \in (i + 3)..(j - 1) : expr[m] # Q
             clause == [field |-> expr[i],
                        value |-> SubSeq(expr, i + 3, close - 1)]
         IN IF close = Len(expr) THEN [ok |-> TRUE, clauses |-> <<clause>>]
            ELSE IF expr[close + 1] # "&&"
            THEN [ok |-> FALSE, clauses |-> <<>>]
            ELSE LET rest == ParseClauses(expr, close + 2)
                 IN [ok |-> rest.ok, clauses |-> <<clause>> \o rest.clauses]

\* no expression and the empty expression filter nothing
ParseFilter(expr) ==
    IF expr.isNone \/ expr.s = <<>> THEN [ok |-> TRUE, clauses |-> <<>>]
    ELSE ParseClauses(expr.s, 1)

WellFormed(expr) == ParseFilter(expr).ok

Matches(row, clauses) ==
    \A c \in 1..Len(clauses) : row[clauses[c].field] = clauses[c].value

\* the rows of the collection a well-formed expression selects
Selected(rows, expr) ==
    {r \in Range(rows) : Matches(r, ParseFilter(expr).clauses)}

\* a stand-in for the cosine distance: the coordinates that differ
Distance(u, v) ==
    Cardinality({i \in 1..Len(u) : i > Len(v) \/ u[i] # v[i]})

\* the collection's schema: a vector of the embedding field has the
\* dimension the store was constructed with, the embedder's
StoreTakes(vector) == Len(vector) = EmbeddingDim

\* the key lookups of insert_chunks' loop over one chunk, in order
InsertKeyError(chunk_) ==
    CASE "chunk_id" \notin DOMAIN chunk_ -> <<"chunk_id">>
      [] "doc_id" \notin DOMAIN chunk_ -> <<"doc_id">>
      [] "metadata" \notin DOMAIN chunk_ -> <<"metadata">>
      [] "doc_name" \notin DOMAIN chunk_.metadata -> <<"doc_name">>
      [] "doc_type" \notin DOMAIN chunk_.metadata -> <<"doc_type">>
      [] "source" \notin DOMAIN chunk_.metadata -> <<"source">>
      [] "content" \notin DOMAIN chunk_ -> <<"content">>
      [] "chunk_index" \notin DOMAIN chunk_.metadata -> <<"chunk_index">>
      [] "embedding" \notin DOMAIN chunk_ -> <<"embedding">>
      [] OTHER -> <<>>

Row(chunk_) ==
    [chunk_id |-> chunk_.chunk_id, doc_id |-> chunk_.doc_id,
     doc_name |-> chunk_.metadata.doc_name,
     doc_type |-> chunk_.metadata.doc_type,
     source |-> chunk_.metadata.source, content |-> chunk_.content,
     chunk_index |-> chunk_.metadata.chunk_index,
     embedding |-> chunk_.embedding]

\* the doc_type check of insert_chunks: True when the batch is refused
InsertRejects(chunks) ==
    /\ "metadata" \in DOMAIN chunks[1]
    /\ LET doc_type == IF "doc_type" \in DOMAIN chunks[1].metadata
                       THEN Some(chunks[1].metadata.doc_type) ELSE None
       IN Truthy(doc_type) /\ doc_type.s \notin DOC_TYPES

\* insert_chunks on collection `rows`: [out, calls, rows].  storeOk: the
\* store accepts the insert.
insert_chunks(rows, chunks, storeOk) ==
    IF chunks = <<>> THEN [out |-> Ok(<<>>), calls |-> <<>>, rows |-> rows]
    ELSE IF InsertRejects(chunks)
    THEN [out |-> Raise("ValueError",
                        <<"Invalid document type: ">>
                        \o chunks[1].metadata.doc_type),
          calls |-> <<>>, rows |-> rows]
    ELSE LET bad == {i \in 1..Len(chunks) : InsertKeyError(chunks[i]) # <<>>}
         IN IF bad # {}
            THEN [out |-> Raise("KeyError",
                    InsertKeyError(chunks[CHOOSE i \in bad :
                                             \A j \in bad : i <= j])),
                  calls |-> <<>>, rows |-> rows]
            ELSE LET data == [i \in 1..Len(chunks) |-> Row(chunks[i])]
                     accepted == /\ storeOk
                                 /\ \A i \in 1..Len(data) :
                                      StoreTakes(data[i].embedding)
                     call == [svc |-> "collection.insert", data |-> data,
                              ok |-> accepted]
                 IN IF accepted
                    THEN [out |-> Ok([i \in 1..Len(chunks) |->
                                        chunks[i].chunk_id]),
                          calls |-> <<call>>, rows |-> rows \o data]
                    ELSE [out |-> Raise("RuntimeError",
                                        <<"Failed to insert chunks: ",
                                          "store error">>),
                          calls |-> <<call>>, rows |-> rows]

\* a search() whose convenience filters replace the filter_expr given
BuildFilter_IgnoresFilterExpr(doc_type, source, filter_expr) ==
    IF Truthy(doc_type) \/ Truthy(source)
    THEN IF Truthy(doc_type) /\ doc_type.s \notin DOC_TYPES
         THEN Raise("ValueError", <<"Invalid doc_type. Must be one of: ">>)
         ELSE Ok(Some(Join(
                (IF Truthy(doc_type)
                 THEN <<<<"doc_type", "==", Q>> \o doc_type.s>> ELSE <<>>)
                \o (IF Truthy(source)
                    THEN <<<<"source", "==", Q>> \o source.s \o <<Q>>>>
                    ELSE <<>>), <<"&&">>)))
    ELSE Ok(filter_expr)

\* a search() that builds its filter without checking doc_type
BuildFilter_NoDocTypeCheck(doc_type, source, filter_expr) ==
    IF filter_expr.isNone /\ (Truthy(doc_type) \/ Truthy(source))
    THEN Ok(Some(Join(
            (IF Truthy(doc_type)
             THEN <<<<"doc_type", "==", Q>> \o doc_type.s>> ELSE <<>>)
            \o (IF Truthy(source)
                THEN <<<<"source", "==", Q>> \o source.s \o <<Q>>>>
                ELSE <<>>), <<"&&">>)))
    ELSE Ok(filter_expr)

\* The filter search() hands to the store: Ok(Optional[str]), or the
\* ValueError of the doc_type check.
BuildFilter(doc_type, source, filter_expr) ==
    IF filter_expr.isNone /\ (Truthy(doc_type) \/ Truthy(source))
    THEN IF Truthy(doc_type) /\ doc_type.s \notin DOC_TYPES
         THEN Raise("ValueError", <<"Invalid doc_type. Must be one of: ">>)
         ELSE LET filters ==
                    (IF Truthy(doc_type)
                     THEN <<<<"doc_type", "==", Q>> \o doc_type.s>>
                     ELSE <<>>)
                    \o (IF Truthy(source)
                        THEN <<<<"source", "==", Q>> \o source.s \o <<Q>>>>
                        ELSE <<>>)
              IN Ok(IF filters # <<>> THEN Some(Join(filters, <<"&&">>))
                    ELSE None)
    ELSE Ok(filter_expr)

\* one formatted result of search()
FormatHit(row, query_embedding) ==
    LET distance == Distance(query_embedding, row.embedding)
    IN [chunk_id |-> row.chunk_id, doc_id |-> row.doc_id,
        doc_name |-> row.doc_name, doc_type |-> row.doc_type,
        source |-> row.source, content |-> row.content,
        chunk_index |-> row.chunk_index, distance |-> distance,
        score |-> [num |-> 1, den |-> 1 + distance]]

\* search() on collection `rows`: [out, calls].  args holds the arguments
\* query_embedding, top_k, doc_type, source and filter_expr; `hits` are the
\* rows the store's approximate index answers with (the order of the results
\* is left out); storeOk: the store answers.
search(rows, args, hits, storeOk) ==
    LET built == BuildFilter(args.doc_type, args.source, args.filter_expr)
    IN IF ~built.ok THEN [out |-> built, calls |-> <<>>]
       ELSE LET answered == /\ storeOk
                            /\ WellFormed(built.value)
                            /\ StoreTakes(args.query_embedding)
                call == [svc |-> "collection.search",
                         data |-> <<args.query_embedding>>,
                         expr |-> built.value, limit |-> args.top_k,
                         ok |-> answered]
            IN IF answered
               THEN [out |-> Ok({FormatHit(r, args.query_embedding) :
                                   r \in hits}),
                     calls |-> <<call>>]
               ELSE [out |-> Raise("RuntimeError",
                                   <<"Search failed: ", "store error">>),
                     calls |-> <<call>>]

\* delete_by_doc_id / delete_by_source on collection `rows`: [out, calls, rows]
DeleteBy(rows, field, value, storeOk) ==
    LET expr == Some(<<field, "==", Q>> \o value \o <<Q>>)
        answered == storeOk /\ WellFormed(expr)
        call == [svc |-> "collection.delete", expr |-> expr, ok |-> answered]
    IN IF answered
       THEN [out |-> Ok(Len(SelectSeq(rows,
                          LAMBDA r : Matches(r, ParseFilter(expr).clauses)))),
             calls |-> <<call>>,
             rows |-> SelectSeq(rows,
                          LAMBDA r : ~Matches(r, ParseFilter(expr).clauses))]
       ELSE [out |-> Raise("RuntimeError",
                           <<"Failed to delete chunks: ", "store error">>),
             calls |-> <<call>>, rows |-> rows]

delete_by_doc_id(rows, doc_id, storeOk) ==
    DeleteBy(rows, "doc_id", doc_id, storeOk)

delete_by_source(rows, source, storeOk) ==
    DeleteBy(rows, "source", source, storeOk)

-----------------------------------------------------------------------------
(* app/ingestion/pipeline.py *)

\* the files ingest_document has its DocumentLoader load: the one it is given
ingest_loads(file) == <<file.path>>

\* ingest_document on one file; uuid is what uuid.uuid4() gives
ingest_document(file, uuid) ==
    LET raw_text == load(file)
        loader_metadata == get_metadata(file.path)
        processor == IF raw_text.ok
                     THEN NewDocumentProcessor(raw_text.value,
                                               {"doc_type", "source"})
                     ELSE raw_text
        chained == CallMethod(
                     CallMethod(CallMethod(processor, "clean_whitespace"),
                                "remove_special_characters"),
                     "preserve_structure")
    IN IF ~chained.ok THEN chained
       ELSE Ok([doc_id |-> uuid,
                text |-> chained.value.text,
                metadata |-> extract_metadata(chained.value, uuid,
                                              loader_metadata.file_name,
                                              loader_metadata.file_path),
                file_path |-> PathStr(file.path)])

\* IndexingPipeline.__init__: the chunker, then the embedder (hasKey: an API
\* key is set), then the vector store (connectOk: Milvus answers)
IndexingPipeline(chunk_size, chunk_overlap, hasKey, connectOk) ==
    LET made == DocumentChunker(chunk_size, chunk_overlap)
    IN IF ~made.ok THEN made
       ELSE IF ~hasKey
       THEN Raise("ValueError", <<"OpenAI API key not found.">>)
       ELSE IF ~connectOk
       THEN Raise("ConnectionError", <<"Failed to connect to Milvus: ">>)
       ELSE Ok([chunk_size |-> chunk_size, chunk_overlap |-> chunk_overlap,
                chunker |-> made.value,
                embedder |-> [embedding_dim |-> EmbeddingDim],
                vector_store |-> [embedding_dim |-> EmbeddingDim]])

\* the chunker of the pipeline whose operations are called
Chunker == DocumentChunker(ChunkSize, Overlap).value

\* index_document after the embedding step: the store step and the result
IndexStore(rows, doc_data, chunks, embedded, store_in_milvus, stored) ==
    IF store_in_milvus /\ ~stored.out.ok
    THEN [out |-> stored.out, calls |-> embedded.calls \o stored.calls,
          rows |-> rows]
    ELSE [out |-> Ok([doc_id |-> doc_data.doc_id,
                      doc_name |-> Get(doc_data.metadata, "doc_name",
                                       <<"unknown">>),
                      file_path |-> doc_data.file_path,
                      num_chunks |-> Len(chunks),
                      chunk_ids |-> IF store_in_milvus
                                    THEN stored.out.value ELSE <<>>,
                      stored_in_milvus |-> store_in_milvus,
                      status |-> "success"]),
          calls |-> IF store_in_milvus
                    THEN embedded.calls \o stored.calls
                    ELSE embedded.calls,
          rows |-> IF store_in_milvus THEN stored.rows ELSE rows]

\* index_document after the chunking step: the embedding step
IndexEmbed(rows, doc_data, chunks, embedded, store_in_milvus, storeOk) ==
    IF ~embedded.out.ok
    THEN [out |-> embedded.out, calls |-> embedded.calls, rows |-> rows]
    ELSE IndexStore(rows, doc_data, chunks, embedded, store_in_milvus,
                    insert_chunks(rows, embedded.out.value, storeOk))

\* index_document from the chunks (or the error) chunk() gave
IndexChunks(rows, doc_data, chunks, store_in_milvus, failAt, storeOk) ==
    IF ~chunks.ok THEN [out |-> chunks, calls |-> <<>>, rows |-> rows]
    ELSE IF chunks.value = <<>>
    THEN [out |-> Ok([doc_id |-> doc_data.doc_id,
                      doc_name |-> Get(doc_data.metadata, "doc_name",
                                       <<"unknown">>),
                      file_path |-> doc_data.file_path, num_chunks |-> 0,
                      chunk_ids |-> <<>>, stored_in_milvus |-> FALSE,
                      status |-> "No chunks"]),
          calls |-> <<>>, rows |-> rows]
    ELSE IndexEmbed(rows, doc_data, chunks.value,
                    embed_chunks(chunks.value, failAt), store_in_milvus,
                    storeOk)

\* index_document on collection `rows`: [out, calls, rows]
index_document(rows, doc_data, store_in_milvus, failAt, storeOk) ==
    IndexChunks(rows, doc_data,
                chunk(Chunker, doc_data.text, doc_data.metadata),
                store_in_milvus, failAt, storeOk)

supported_exts == {"pdf", "txt", "docx", "md"}

\* a scan that compares the extension as it is spelled
Scan_CaseSensitive(listing) ==
    SelectSeq(listing,
              LAMBDA f : ~f.path.hidden /\ f.path.ext \in supported_exts)

\* the os.walk loop of index_directory: the files that are not hidden and
\* carry a supported extension, in the order the walk lists them
Scan(listing) ==
    SelectSeq(listing,
              LAMBDA f : ~f.path.hidden /\ Lower(f.path.ext) \in supported_exts)

\* a handler that catches ValueError alone
Caught_ValueErrorOnly(exc) == exc = "ValueError"

\* except Exception: the exceptions the handler catches
Caught(exc) == exc \in ExceptionSubclasses

\* the try block of index_directory's loop: [out, calls, rows]
IngestAndIndex(rows, doc_data, store_in_milvus, failAt, storeOk) ==
    IF ~doc_data.ok THEN [out |-> doc_data, calls |-> <<>>, rows |-> rows]
    ELSE index_document(rows, doc_data.value, store_in_milvus, failAt, storeOk)

\* The try/except of index_directory's loop around what the try block did:
\* [entry, calls, rows, propagated].  entry is the result appended;
\* propagated holds when the exception leaves the loop instead.
TryExcept(file, done) ==
    IF done.out.ok
    THEN [entry |-> done.out.value, calls |-> done.calls,
          rows |-> done.rows, propagated |-> FALSE]
    ELSE IF Caught(done.out.exc)
    THEN [entry |-> [file_path |-> PathStr(file.path),
                     doc_name |-> FileName(file.path),
                     error |-> done.out.msg, status |-> "failed"],
          calls |-> done.calls, rows |-> done.rows, propagated |-> FALSE]
    ELSE [entry |-> done.out, calls |-> done.calls, rows |-> done.rows,
          propagated |-> TRUE]

\* the body of index_directory's loop for one file on collection `rows`
ProcessFile(rows, file, store_in_milvus, uuid, failAt, storeOk) ==
    TryExcept(file, IngestAndIndex(rows, ingest_document(file, uuid),
                                   store_in_milvus, failAt, storeOk))

RECURSIVE SumChunks(_)
SumChunks(rs) ==
    IF rs = <<>> THEN 0
    ELSE Get(Head(rs), "num_chunks", 0) + SumChunks(Tail(rs))

\* a summary whose failed entries are looked up under another status
Summary_FailedUnderOtherStatus(files, rs) ==
    LET successful == SelectSeq(rs, LAMBDA r : Get(r, "status", "") = "success")
        failed == SelectSeq(rs, LAMBDA r : Get(r, "status", "") = "error")
    IN [total_documents |-> Len(files), successful |-> Len(successful),
        failed |-> Len(failed), total_chunks |-> SumChunks(successful),
        results |-> rs]

\* the summary index_directory returns
Summary(files, rs) ==
    LET successful == SelectSeq(rs, LAMBDA r : Get(r, "status", "") = "success")
        failed == SelectSeq(rs, LAMBDA r : Get(r, "status", "") = "failed")
    IN [total_documents |-> Len(files), successful |-> Len(successful),
        failed |-> Len(failed), total_chunks |-> SumChunks(successful),
        results |-> rs]

-----------------------------------------------------------------------------
(* The inputs the operations are called with *)

Path(folders, hidden, stem, ext, rfc) ==
    [folders |-> folders, hidden |-> hidden, stem |-> stem, ext |-> ext,
     rfc |-> rfc]

File(path, readable, text) ==
    [path |-> path, readable |-> readable, text |-> text]

\* a three-word text file, a corrupt pdf, an empty markdown file, a hidden
\* file, a file of another extension, and a whitespace-only file whose
\* extension is upper case
SampleFiles ==
    <<File(Path(<<"RFCs">>, FALSE, "rfc2616", "txt", <<"2616">>), TRUE,
           <<"a", " ", "a", " ", "a">>),
      File(Path(<<"docs">>, FALSE, "b", "pdf", <<>>), FALSE, <<>>),
      File(Path(<<"docs">>, FALSE, "c", "md", <<>>), TRUE, <<>>),
      File(Path(<<"docs">>, TRUE, "d", "txt", <<>>), TRUE, <<"a">>),
      File(Path(<<"docs">>, FALSE, "e", "csv", <<>>), TRUE, <<"a">>),
      File(Path(<<"manuals", "tool">>, FALSE, "g", "TXT", <<>>), TRUE,
           <<" ">>)>>

\* the directory listings: up to MaxFiles different sample files in any order
Listings ==
    {[i \in 1..Len(s) |-> SampleFiles[s[i]]] :
        s \in {t \in SeqsUpTo(1..Len(SampleFiles), MaxFiles) :
                 \A i, j \in 1..Len(t) : i # j => t[i] # t[j]}}

UUIDs == {<<"u1">>, <<"u2">>}

Texts == SeqsUpTo(TextChars, MaxTextLen)

\* Metadata handed to chunk(): what extract_metadata returns for the text,
\* that record completed with doc_type and source as chunk()'s docstring asks,
\* and the completed record without its doc_name.
ExtractedMetadata(text, uuid) ==
    extract_metadata([kind |-> "DocumentProcessor", text |-> text], uuid,
                     <<"f.txt">>, <<"docs", "f.txt">>)

CompleteMetadata(text, uuid) ==
    LET m == ExtractedMetadata(text, uuid)
    IN [k \in DOMAIN m \cup {"doc_type", "source"} |->
          CASE k = "doc_type" -> <<"rfc">>
            [] k = "source" -> <<"x">>
            [] OTHER -> m[k]]

WithoutKey(d, key) == [k \in DOMAIN d \ {key} |-> d[k]]

MetadataInputs(text) ==
    {ExtractedMetadata(text, <<"u1">>), CompleteMetadata(text, <<"u1">>),
     WithoutKey(CompleteMetadata(text, <<"u1">>), "doc_name")}

\* chunks handed to insert_chunks
InputChunk(id, doc_type, source) ==
    [chunk_id |-> <<id>>, doc_id |-> <<"d1">>, content |-> <<"a">>,
     embedding |-> Embed(<<"a">>),
     metadata |-> [doc_name |-> <<"f.txt">>, doc_type |-> doc_type,
                   source |-> source, chunk_index |-> 0]]

\* a vector one longer than the store's dimension
LongVector == [i \in 1..EmbeddingDim + 1 |-> 1]

InputChunks ==
    {InputChunk("c1", <<"rfc">>, <<"x">>),
     InputChunk("c2", <<"manual">>, <<"y">>),
     InputChunk("c3", <<"bogus">>, <<"x">>),
     [InputChunk("c4", <<"rfc">>, <<"x">>) EXCEPT !.embedding = LongVector]}

Batches == SeqsUpTo(InputChunks, MaxBatch)

\* arguments of search()
DocTypeArgs ==
    {None, Some(<<>>), Some(<<"rfc">>), Some(<<"manual">>), Some(<<"bogus">>)}

SourceArgs == {None, Some(<<"x">>)}

FilterArgs ==
    {None, Some(<<>>),
     Some(<<"doc_type", "==", Q, "manual", Q>>),
     Some(<<"doc_type", "==">>)}

TopKs == {1, 2}

SearchArgs ==
    [query_embedding : {Embed(<<"a">>), LongVector}, top_k : TopKs,
     doc_type : DocTypeArgs, source : SourceArgs, filter_expr : FilterArgs]

\* texts handed to the embedding entry points: empty, whitespace-only, and
\* texts of different lengths
MaxTexts == 3       \* texts (or chunks) in one embedding call
MaxBatchSize == 2   \* batch_size handed to generate_embeddings_batch
EmbedTexts == {<<>>, <<" ">>, <<"a">>, <<"a", "a">>}
TextLists == SeqsUpTo(EmbedTexts, MaxTexts)

\* chunks handed to embed_chunks: with each content, and one without content
EmbedChunkInputs ==
    {[chunk_id |-> <<"c1">>, content |-> t] : t \in EmbedTexts}
    \cup {[chunk_id |-> <<"c0">>]}
ChunkLists == SeqsUpTo(EmbedChunkInputs, MaxTexts)

\* arguments of _generate_chunk_id
DocIdChars == {"d", "1", "_"}
DocIds == SeqsUpTo(DocIdChars, MaxDocIdLen)
Contents == {<<"a">>, <<"a", "a">>, <<"a", " ", "a">>, <<"a", "a", "a">>}

-----------------------------------------------------------------------------
(* The operations *)

NoCall == [op |-> "none"]

\* after construction: nothing indexed, nothing stored, nothing called
InitState ==
    /\ pc = "idle"
    /\ all_files = <<>>
    /\ idx = 1
    /\ results = <<>>
    /\ summaries = <<>>
    /\ collection = <<>>
    /\ calls = <<>>
    /\ chunker = Chunker
    /\ loaded = <<>>

InitCommon == InitState /\ ret = NoCall

\* index_directory, up to its loop: the scan
IndexDirectoryScan ==
    /\ pc = "idle"
    /\ Len(summaries) < MaxRuns
    /\ \E store_in_milvus \in BOOLEAN :
         ret' = [op |-> "index_directory",
                 args |-> [store_in_milvus |-> store_in_milvus]]
    /\ all_files' = Scan(dir)
    /\ idx' = 1
    /\ results' = <<>>
    /\ calls' = <<>>
    /\ loaded' = <<>>
    /\ pc' = "loop"
    /\ UNCHANGED <<chunker, dir, summaries, collection>>

\* index_directory: one iteration of its loop
IndexDirectoryFile ==
    /\ pc = "loop"
    /\ idx <= Len(all_files)
    /\ \E uuid \in UUIDs, failAt \in 0..1, storeOk \in BOOLEAN :
         LET p == ProcessFile(collection, all_files[idx],
                              ret.args.store_in_milvus, uuid, failAt, storeOk)
         IN /\ Len(p.rows) <= MaxRows
            /\ collection' = p.rows
            /\ calls' = calls \o p.calls
            /\ IF p.propagated
               THEN /\ pc' = "raised"
                    /\ ret' = [ret EXCEPT !.op = "index_directory raised"]
                    /\ UNCHANGED <<idx, results>>
               ELSE /\ results' = Append(results, p.entry)
                    /\ idx' = idx + 1
                    /\ UNCHANGED <<pc, ret>>
    /\ loaded' = loaded \o ingest_loads(all_files[idx])
    /\ UNCHANGED <<chunker, dir, all_files, summaries>>

\* index_directory: after the loop, the summary is returned
IndexDirectoryReturn ==
    /\ pc = "loop"
    /\ idx > Len(all_files)
    /\ summaries' = Append(summaries, Summary(all_files, results))
    /\ pc' = "idle"
    /\ UNCHANGED <<chunker, loaded, dir, all_files, idx, results, collection, calls, ret>>

\* ingest_document called on a file of the directory
IngestDocumentCall ==
    /\ pc = "idle"
    /\ \E i \in 1..Len(dir), uuid \in UUIDs :
         /\ ret' = [op |-> "ingest_document", args |-> dir[i].path,
                    out |-> ingest_document(dir[i], uuid)]
         /\ loaded' = ingest_loads(dir[i])
    /\ calls' = <<>>
    /\ UNCHANGED <<chunker, dir, pc, all_files, idx, results, summaries,
                   collection>>

\* index_document called on a document the caller holds
IndexDocumentCall ==
    /\ pc = "idle"
    /\ \E text \in Texts, store_in_milvus \in BOOLEAN, failAt \in 0..1,
          storeOk \in BOOLEAN :
         \E metadata \in MetadataInputs(text) :
           LET doc_data == [doc_id |-> <<"u1">>, text |-> text,
                            metadata |-> metadata,
                            file_path |-> <<"docs", "f.txt">>]
               r == index_document(collection, doc_data, store_in_milvus,
                                   failAt, storeOk)
           IN /\ Len(r.rows) <= MaxRows
              /\ ret' = [op |-> "index_document", args |-> doc_data,
                         out |-> r.out]
              /\ calls' = r.calls
              /\ collection' = r.rows
    /\ loaded' = <<>>
    /\ UNCHANGED <<chunker, dir, pc, all_files, idx, results, summaries>>

\* chunk() called on the shared chunker; it assigns no attribute of self
ChunkCall ==
    /\ pc = "idle"
    /\ \E text \in Texts :
         \E metadata \in MetadataInputs(text) :
           ret' = [op |-> "chunk",
                   args |-> [text |-> text, metadata |-> metadata],
                   reads |-> chunk_reads(chunker, text, metadata),
                   out |-> chunk(chunker, text, metadata)]
    /\ calls' = <<>>
    /\ loaded' = <<>>
    /\ UNCHANGED <<chunker, dir, pc, all_files, idx, results, summaries,
                   collection>>

\* DocumentChunker(chunk_size, overlap) constructed; the documents that
\* follow share the new chunker
DocumentChunkerCall ==
    /\ pc = "idle"
    /\ \E chunk_size \in 1..MaxChunkSize, overlap \in 0..MaxChunkSize + 1 :
         LET made == DocumentChunker(chunk_size, overlap)
         IN /\ ret' = [op |-> "DocumentChunker",
                       args |-> [chunk_size |-> chunk_size,
                                 overlap |-> overlap],
                       out |-> made]
            /\ chunker' = IF made.ok THEN made.value ELSE chunker
    /\ calls' = <<>>
    /\ UNCHANGED <<loaded, dir, pc, all_files, idx, results, summaries,
                   collection>>

\* IndexingPipeline(chunk_size, chunk_overlap) constructed; the documents
\* that follow go through the new pipeline's chunker
IndexingPipelineCall ==
    /\ pc = "idle"
    /\ \E chunk_size \in 1..MaxChunkSize, overlap \in 0..MaxChunkSize + 1,
          hasKey \in BOOLEAN, connectOk \in BOOLEAN :
         LET made == IndexingPipeline(chunk_size, overlap, hasKey, connectOk)
         IN /\ ret' = [op |-> "IndexingPipeline",
                       args |-> [chunk_size |-> chunk_size,
                                 overlap |-> overlap],
                       out |-> made]
            /\ chunker' = IF made.ok THEN made.value.chunker ELSE chunker
    /\ calls' = <<>>
    /\ UNCHANGED <<loaded, dir, pc, all_files, idx, results, summaries,
                   collection>>

\* _generate_chunk_id applied to the arguments drawn
GenerateChunkIdCall ==
    /\ pc = "idle"
    /\ ret.op = "call _generate_chunk_id"
    /\ ret' = [op |-> "_generate_chunk_id", args |-> ret.args,
               out |-> Ok(_generate_chunk_id(ret.args.doc_id,
                                             ret.args.chunk_idx,
                                             ret.args.content))]
    /\ calls' = <<>>
    /\ UNCHANGED <<chunker, loaded, dir, pc, all_files, idx, results, summaries,
                   collection>>

\* generate_embedding applied to the text drawn
GenerateEmbeddingCall ==
    /\ pc = "idle"
    /\ ret.op = "call generate_embedding"
    /\ \E svcOk \in BOOLEAN :
         LET r == generate_embedding(ret.args, svcOk)
         IN /\ ret' = [op |-> "generate_embedding", args |-> ret.args,
                       out |-> r.out]
            /\ calls' = r.calls
    /\ UNCHANGED <<chunker, loaded, dir, pc, all_files, idx, results, summaries,
                   collection>>

\* generate_embeddings_batch applied to the texts and batch_size drawn
GenerateEmbeddingsBatchCall ==
    /\ pc = "idle"
    /\ ret.op = "call generate_embeddings_batch"
    /\ \E failAt \in 0..MaxTexts :
         LET r == generate_embeddings_batch(ret.args.texts,
                                            ret.args.batch_size, failAt)
         IN /\ ret' = [op |-> "generate_embeddings_batch",
                       args |-> ret.args, out |-> r.out]
            /\ calls' = r.calls
    /\ UNCHANGED <<chunker, loaded, dir, pc, all_files, idx, results, summaries,
                   collection>>

\* embed_chunks applied to the chunks drawn
EmbedChunksCall ==
    /\ pc = "idle"
    /\ ret.op = "call embed_chunks"
    /\ \E failAt \in 0..MaxTexts :
         LET r == embed_chunks(ret.args, failAt)
         IN /\ ret' = [op |-> "embed_chunks", args |-> ret.args,
                       out |-> r.out]
            /\ calls' = r.calls
    /\ UNCHANGED <<chunker, loaded, dir, pc, all_files, idx, results, summaries,
                   collection>>

\* insert_chunks called
InsertChunksCall ==
    /\ pc = "idle"
    /\ \E chunks \in Batches, storeOk \in BOOLEAN :
         LET r == insert_chunks(collection, chunks, storeOk)
         IN /\ Len(r.rows) <= MaxRows
            /\ ret' = [op |-> "insert_chunks", args |-> chunks, out |-> r.out]
            /\ calls' = r.calls
            /\ collection' = r.rows
    /\ UNCHANGED <<chunker, loaded, dir, pc, all_files, idx, results, summaries>>

\* search called
SearchCall ==
    /\ pc = "idle"
    /\ \E args \in SearchArgs, storeOk \in BOOLEAN :
         LET built == BuildFilter(args.doc_type, args.source,
                                  args.filter_expr)
             answers == IF /\ built.ok /\ storeOk /\ WellFormed(built.value)
                           /\ StoreTakes(args.query_embedding)
                        THEN {h \in SUBSET Selected(collection, built.value) :
                                Cardinality(h) <= args.top_k}
                        ELSE {{}}
         IN \E hits \in answers :
              LET r == search(collection, args, hits, storeOk)
              IN /\ ret' = [op |-> "search", args |-> args, out |-> r.out]
                 /\ calls' = r.calls
    /\ UNCHANGED <<chunker, loaded, dir, pc, all_files, idx, results, summaries,
                   collection>>

\* delete_by_doc_id called
DeleteByDocIdCall ==
    /\ pc = "idle"
    /\ \E doc_id \in {<<"d1">>, <<"d2">>}, storeOk \in BOOLEAN :
         LET r == delete_by_doc_id(collection, doc_id, storeOk)
         IN /\ ret' = [op |-> "delete_by_doc_id", args |-> doc_id,
                       out |-> r.out]
            /\ calls' = r.calls
            /\ collection' = r.rows
    /\ UNCHANGED <<chunker, loaded, dir, pc, all_files, idx, results, summaries>>

\* delete_by_source called
DeleteBySourceCall ==
    /\ pc = "idle"
    /\ \E source \in {<<"x">>, <<"y">>}, storeOk \in BOOLEAN :
         LET r == delete_by_source(collection, source, storeOk)
         IN /\ ret' = [op |-> "delete_by_source", args |-> source,
                       out |-> r.out]
            /\ calls' = r.calls
            /\ collection' = r.rows
    /\ UNCHANGED <<chunker, loaded, dir, pc, all_files, idx, results, summaries>>

-----------------------------------------------------------------------------
(* The specifications *)

\* the directory run: index_directory over any listing, up to MaxRuns times
InitDir == dir \in Listings /\ InitCommon
NextDir == IndexDirectoryScan \/ IndexDirectoryFile \/ IndexDirectoryReturn
SpecDir == InitDir /\ [][NextDir]_vars

\* the per-document operations, called directly on the sample files
InitDoc == dir = SampleFiles /\ InitCommon
NextDoc == IngestDocumentCall \/ IndexDocumentCall \/ ChunkCall
SpecDoc == InitDoc /\ [][NextDoc]_vars

\* the vector store's operations
InitStore == dir = <<>> /\ InitCommon
NextStore ==
    InsertChunksCall \/ SearchCall \/ DeleteByDocIdCall \/ DeleteBySourceCall
SpecStore == InitStore /\ [][NextStore]_vars

\* chunk identity: _generate_chunk_id on arguments drawn at the start
InitId ==
    /\ dir = <<>>
    /\ InitState
    /\ ret \in [op : {"call _generate_chunk_id"},
                args : [doc_id : DocIds, chunk_idx : 0..MaxChunkIdx,
                        content : Contents]]
NextId == GenerateChunkIdCall
SpecId == InitId /\ [][NextId]_vars

\* the chunker: constructed with any sizes, and shared by the documents
InitChunker == dir = <<>> /\ InitCommon
NextChunker == DocumentChunkerCall \/ IndexingPipelineCall \/ ChunkCall
SpecChunker == InitChunker /\ [][NextChunker]_vars

\* the embedding generator's entry points, on arguments drawn at the start
InitEmbed ==
    /\ dir = <<>>
    /\ InitState
    /\ ret \in [op : {"call generate_embedding"}, args : EmbedTexts]
          \cup [op : {"call generate_embeddings_batch"},
                args : [texts : TextLists, batch_size : 1..MaxBatchSize]]
          \cup [op : {"call embed_chunks"}, args : ChunkLists]
NextEmbed ==
    GenerateEmbeddingCall \/ GenerateEmbeddingsBatchCall \/ EmbedChunksCall
SpecEmbed == InitEmbed /\ [][NextEmbed]_vars

\* every operation, on any listing
Init == InitDir
Next ==
    NextDir \/ NextDoc \/ NextStore \/ NextId \/ NextEmbed \/ NextChunker
Spec == Init /\ [][Next]_vars

-----------------------------------------------------------------------------
(* The claims *)

\* The files index_directory discovers in the directory
Discovered == Scan(dir)

\* a file whose text holds at least one word
HasWords(file) == file.readable /\ Words(file.text) # <<>>

\* no external call of the operation failed
AllCallsSucceeded == \A c \in 1..Len(calls) : calls[c].ok

\* C1: in index_directory, a file whose processing raises gets a result entry
\* with status "failed" that names it and carries the error; the error never
\* leaves index_directory, and every file after it is still processed: while
\* the loop runs there is one entry for each file before the current one, in
\* the order of discovery, and every summary returned has one entry per
\* discovered file.
C1_FailureIsolated ==
    /\ pc # "raised"
    /\ pc = "loop" => Len(results) = idx - 1
    /\ \A i \in 1..Len(results) :
         /\ results[i].file_path = PathStr(all_files[i].path)
         /\ \A uuid \in UUIDs :
              LET doc_data == ingest_document(all_files[i], uuid)
              IN ~doc_data.ok =>
                   /\ results[i].status = "failed"
                   /\ results[i].doc_name = FileName(all_files[i].path)
                   /\ results[i].error = doc_data.msg
    /\ \A s \in 1..Len(summaries) :
         /\ Len(summaries[s].results) = Len(Discovered)
         /\ summaries[s].total_documents = Len(Discovered)

\* a run has returned in which the first file could not be loaded and the
\* files after it were processed all the same
C1_Witness ==
    /\ pc = "idle"
    /\ Len(summaries) >= 1
    /\ Len(Discovered) >= 3
    /\ ~Discovered[1].readable
    /\ summaries[1].results[1].status = "failed"
    /\ Len(summaries[1].results) = Len(Discovered)

\* C2: over a directory of N supported files of which k cannot be loaded, the
\* others being loadable with words in them and every external call
\* succeeding, the summary has successful = N - k and failed = k, and each
\* failed entry names the file and carries the load error.
C2_SummaryCounts ==
    \A s \in 1..Len(summaries) :
       ((\A i \in 1..Len(Discovered) :
            ~Discovered[i].readable \/ HasWords(Discovered[i]))
        /\ AllCallsSucceeded)
       => LET unreadable == {i \in 1..Len(Discovered) : ~Discovered[i].readable}
          IN /\ summaries[s].successful = Len(Discovered) - Cardinality(unreadable)
             /\ summaries[s].failed = Cardinality(unreadable)
             /\ \A i \in unreadable :
                  /\ summaries[s].results[i].status = "failed"
                  /\ summaries[s].results[i].doc_name
                        = FileName(Discovered[i].path)
                  /\ summaries[s].results[i].error = load(Discovered[i]).msg

\* C3: a supported file whose text is empty, or holds no word, ends with a
\* result entry whose status is "no chunks" with num_chunks = 0, and when
\* every discovered file is such a file no embedding request and no insert
\* is issued.
C3_EmptyFileNoChunks ==
    /\ \A i \in 1..Len(results) :
         (all_files[i].readable /\ ~HasWords(all_files[i]))
         => /\ results[i].status = "no chunks"
            /\ Get(results[i], "num_chunks", -1) = 0
    /\ (\A i \in 1..Len(all_files) :
           all_files[i].readable /\ ~HasWords(all_files[i]))
       => calls = <<>>

\* C4: insert_chunks with a chunk, at any position of the batch, whose
\* doc_type is outside DOC_TYPES raises and never calls the store's insert.
C4_InsertValidatesEveryChunk ==
    (ret.op = "insert_chunks"
     /\ \E i \in 1..Len(ret.args) :
          ret.args[i].metadata.doc_type \notin DOC_TYPES)
    => (~ret.out.ok /\ calls = <<>>)

\* the filter the convenience arguments of search() stand for: the equality
\* on doc_type (when given), then the equality on source (when given)
ExpectedClauses(args) ==
    (IF Truthy(args.doc_type)
     THEN <<[field |-> "doc_type", value |-> args.doc_type.s]>> ELSE <<>>)
    \o (IF Truthy(args.source)
        THEN <<[field |-> "source", value |-> args.source.s]>> ELSE <<>>)

\* C5: search without filter_expr and with a valid doc_type and/or a source
\* hands the store a well-formed expression that is the conjunction of the
\* equalities asked for, and every hit returned carries the doc_type and the
\* source asked for.
C5_FilterIsConjunction ==
    (ret.op = "search" /\ ret.args.filter_expr.isNone
     /\ (Truthy(ret.args.doc_type) \/ Truthy(ret.args.source))
     /\ (Truthy(ret.args.doc_type) => ret.args.doc_type.s \in DOC_TYPES))
    => /\ Len(calls) = 1
       /\ WellFormed(calls[1].expr)
       /\ ParseFilter(calls[1].expr).clauses = ExpectedClauses(ret.args)
       /\ ret.out.ok =>
            \A hit \in ret.out.value :
               /\ Truthy(ret.args.doc_type) =>
                     hit.doc_type = ret.args.doc_type.s
               /\ Truthy(ret.args.source) => hit.source = ret.args.source.s

\* C6: search with a filter_expr issues one search call to the store whose
\* expression is that filter_expr, whatever doc_type and source are.
C6_FilterExprOverrides ==
    (ret.op = "search" /\ ~ret.args.filter_expr.isNone)
    => /\ Len(calls) = 1
       /\ calls[1].svc = "collection.search"
       /\ calls[1].expr = ret.args.filter_expr

\* a search with a filter_expr, a doc_type and a source was answered
C6_Witness ==
    /\ ret.op = "search"
    /\ ret.args.filter_expr = Some(<<"doc_type", "==", Q, "manual", Q>>)
    /\ ret.args.doc_type = Some(<<"rfc">>)
    /\ Truthy(ret.args.source)
    /\ ret.out.ok
    /\ ret.out.value # {}

\* C7, as claimed: search with a (non-empty) doc_type outside DOC_TYPES raises
\* and issues no search call, whatever the other arguments are.
C7_InvalidDocTypeRejected ==
    (ret.op = "search" /\ Truthy(ret.args.doc_type)
     /\ ret.args.doc_type.s \notin DOC_TYPES)
    => (~ret.out.ok /\ ret.out.exc = "ValueError" /\ calls = <<>>)

\* C7, amended: search without filter_expr and with a non-empty doc_type
\* outside DOC_TYPES raises ValueError and issues no search call, whatever
\* source and top_k are.
C7_InvalidDocTypeRejectedWithoutFilterExpr ==
    (ret.op = "search" /\ ret.args.filter_expr.isNone
     /\ Truthy(ret.args.doc_type) /\ ret.args.doc_type.s \notin DOC_TYPES)
    => (~ret.out.ok /\ ret.out.exc = "ValueError" /\ calls = <<>>)

\* a search for an unknown doc_type, with a source and without filter_expr,
\* was refused while the collection held rows
C7_Witness ==
    /\ ret.op = "search"
    /\ ret.args.filter_expr.isNone
    /\ ret.args.doc_type = Some(<<"bogus">>)
    /\ Truthy(ret.args.source)
    /\ ~ret.out.ok
    /\ collection # <<>>

\* C8: two runs of index_directory over the same unchanged files give every
\* file with words in it the same chunk_ids in both runs.
C8_ReindexIdempotent ==
    (Len(summaries) >= 2 /\ AllCallsSucceeded)
    => \A i \in 1..Len(Discovered) :
          HasWords(Discovered[i])
          => /\ "chunk_ids" \in DOMAIN summaries[1].results[i]
             /\ "chunk_ids" \in DOMAIN summaries[2].results[i]
             /\ summaries[1].results[i].chunk_ids
                   = summaries[2].results[i].chunk_ids

\* the fingerprint of a content: the part of its hash the chunk id keeps
Fingerprint(content) == SubSeq(Sha256Hex(content), 1, HashLen)

\* C9: the id _generate_chunk_id returned differs from the id of every other
\* (doc_id, chunk_index) pair, whatever the contents, and from the id of the
\* same pair with a content of another fingerprint; the same triple gives the
\* same id.
C9_ChunkIdInjective ==
    ret.op = "_generate_chunk_id"
    => \A doc_id \in DocIds, chunk_idx \in 0..MaxChunkIdx, content \in Contents :
          LET same_pair == doc_id = ret.args.doc_id
                           /\ chunk_idx = ret.args.chunk_idx
              other == _generate_chunk_id(doc_id, chunk_idx, content)
          IN /\ ~same_pair => other # ret.out.value
             /\ (same_pair
                 /\ Fingerprint(content) # Fingerprint(ret.args.content))
                => other # ret.out.value
             /\ (same_pair /\ content = ret.args.content)
                => other = ret.out.value

\* an id was generated for a doc_id that ends in a digit, at an index whose
\* digits another doc_id could continue, of a content whose fingerprint
\* another content shares
C9_Witness ==
    /\ ret.op = "_generate_chunk_id"
    /\ ret.args.doc_id = <<"d", "1">>
    /\ ret.args.chunk_idx = 1
    /\ \E content \in Contents :
          /\ content # ret.args.content
          /\ Fingerprint(content) = Fingerprint(ret.args.content)

\* the parent fields chunk() needs
RequiredParentKeys == Range(ChunkMetadataKeys) \cup {"doc_id"}

\* C10: chunk() on a parent that holds every required field returns chunks
\* (at least one for a text with words) whose doc_name, doc_type, source,
\* doc_path and word_count_at_source are the parent's and whose doc_id is the
\* parent's; on a parent that lacks a required field it raises for a text
\* with words.
C10_ChunksCarryParentMetadata ==
    ret.op = "chunk"
    => LET md == ret.args.metadata
           has_words == Words(ret.args.text) # <<>>
       IN IF RequiredParentKeys \subseteq DOMAIN md
          THEN /\ ret.out.ok
               /\ has_words => Len(ret.out.value) >= 1
               /\ \A i \in 1..Len(ret.out.value) :
                    LET c == ret.out.value[i]
                    IN /\ c.doc_id = md.doc_id
                       /\ c.metadata.doc_name = md.doc_name
                       /\ c.metadata.doc_type = md.doc_type
                       /\ c.metadata.source = md.source
                       /\ c.metadata.doc_path = md.doc_path
                       /\ c.metadata.word_count_at_source = md.word_count
          ELSE has_words => ~ret.out.ok

\* C11: chunk() on a non-empty text returns n >= 1 chunks, the i-th (from 0)
\* with chunk_index = i and total_chunks = n; on the empty text it returns
\* the empty sequence without raising.
C11_ChunkIndexAndTotal ==
    ret.op = "chunk"
    => IF ret.args.text = <<>>
       THEN ret.out = Ok(<<>>)
       ELSE /\ ret.out.ok
            /\ Len(ret.out.value) >= 1
            /\ \A i \in 1..Len(ret.out.value) :
                 /\ ret.out.value[i].metadata.chunk_index = i - 1
                 /\ ret.out.value[i].metadata.total_chunks
                      = Len(ret.out.value)

\* ceil(n / b)
CeilDiv(n, b) == (n + b - 1) \div b

\* the k-th of the consecutive slices of at most b texts
Slice(texts, b, k) ==
    SubSeq(texts, (k - 1) * b + 1,
           IF k * b < Len(texts) THEN k * b ELSE Len(texts))

\* the service calls issued are the first slices of the texts, in order, each
\* of at most b texts
CallsAreLeadingSlices(texts, b) ==
    /\ Len(calls) <= CeilDiv(Len(texts), b)
    /\ \A k \in 1..Len(calls) :
         /\ calls[k].svc = "embeddings.create"
         /\ calls[k].input = Slice(texts, b, k)
         /\ Len(calls[k].input) <= b

\* the result of embed_chunks: the i-th chunk with the i-th text's vector
ChunksEmbeddedInOrder ==
    /\ Len(ret.out.value) = Len(ret.args)
    /\ \A i \in 1..Len(ret.args) :
         LET c == ret.out.value[i]
         IN /\ "embedding" \in DOMAIN c
            /\ c.embedding = Embed(Get(ret.args[i], "content", <<>>))
            /\ \A k \in DOMAIN ret.args[i] : c[k] = ret.args[i][k]

\* C12 as stated: generate_embeddings_batch on n texts with batch size b
\* issues ceil(n/b) service calls, the consecutive slices of at most b texts
\* in order; when every call succeeds the result has n vectors, the i-th the
\* i-th text's, and embed_chunks gives the i-th chunk the i-th vector.
C12_BatchesCeilCalls ==
    /\ ret.op = "generate_embeddings_batch"
       => /\ Len(calls) = CeilDiv(Len(ret.args.texts), ret.args.batch_size)
          /\ CallsAreLeadingSlices(ret.args.texts, ret.args.batch_size)
          /\ AllCallsSucceeded
             => /\ ret.out.ok
                /\ Len(ret.out.value) = Len(ret.args.texts)
                /\ \A i \in 1..Len(ret.args.texts) :
                     ret.out.value[i] = Embed(ret.args.texts[i])
    /\ ret.op = "embed_chunks" /\ AllCallsSucceeded
       => ret.out.ok /\ ChunksEmbeddedInOrder

\* C12, amended: the calls issued are the leading slices, all ceil(n/b) of
\* them when every call succeeds, and up to the first call that fails
\* otherwise, which raises RuntimeError.
C12_BatchesCeilCallsUntilFailure ==
    /\ ret.op = "generate_embeddings_batch"
       => /\ CallsAreLeadingSlices(ret.args.texts, ret.args.batch_size)
          /\ \A k \in 1..Len(calls) - 1 : calls[k].ok
          /\ IF AllCallsSucceeded
             THEN /\ Len(calls)
                       = CeilDiv(Len(ret.args.texts), ret.args.batch_size)
                  /\ ret.out.ok
                  /\ Len(ret.out.value) = Len(ret.args.texts)
                  /\ \A i \in 1..Len(ret.args.texts) :
                       ret.out.value[i] = Embed(ret.args.texts[i])
             ELSE ~ret.out.ok /\ ret.out.exc = "RuntimeError"
    /\ ret.op = "embed_chunks"
       => IF AllCallsSucceeded
          THEN ret.out.ok /\ ChunksEmbeddedInOrder
          ELSE ~ret.out.ok /\ ret.out.exc = "RuntimeError"

\* three texts of different lengths went out in two requests, the second a
\* partial batch, and three vectors came back
C12_Witness ==
    /\ ret.op = "generate_embeddings_batch"
    /\ ret.args.texts = <<<<"a">>, <<"a", "a">>, <<>>>>
    /\ ret.args.batch_size = 2
    /\ Len(calls) = 2
    /\ ret.out.ok

\* an empty or whitespace-only text
Blank(text) == text = <<>> \/ Strip(text) = <<>>

\* the call failed and no request that carries a blank text was made
RejectedBeforeRequest ==
    /\ ~ret.out.ok
    /\ \A k \in 1..Len(calls) :
         \A i \in 1..Len(calls[k].input) : ~Blank(calls[k].input[i])

\* C13: generate_embedding, generate_embeddings_batch and embed_chunks fail
\* on an input with an empty or whitespace-only text, and no request to the
\* embedding service carries such a text.
C13_BlankTextRejected ==
    /\ ret.op = "generate_embedding" /\ Blank(ret.args)
       => RejectedBeforeRequest
    /\ (/\ ret.op = "generate_embeddings_batch"
        /\ \E i \in 1..Len(ret.args.texts) : Blank(ret.args.texts[i]))
       => RejectedBeforeRequest
    /\ (/\ ret.op = "embed_chunks"
        /\ \E i \in 1..Len(ret.args) :
             Blank(Get(ret.args[i], "content", <<>>)))
       => RejectedBeforeRequest

\* C14: constructing a DocumentChunker, or an IndexingPipeline, with
\* overlap >= chunk_size (overlap = chunk_size included) raises, and the
\* chunker the documents go through stays the one there was.
C14_OverlapRejectedAtConstruction ==
    [][(/\ ret'.op \in {"DocumentChunker", "IndexingPipeline"}
        /\ ret'.args.overlap >= ret'.args.chunk_size)
       => ~ret'.out.ok /\ chunker' = chunker]_vars

\* a file index_directory is to process: its name does not start with "."
\* and its extension, lower-cased, is pdf, txt, docx or md
Eligible(path) ==
    /\ Head(FileName(path)) # "."
    /\ Lower(path.ext) \in {"pdf", "txt", "docx", "md"}

\* C15: index_directory never has a hidden file or a file of another
\* extension loaded, loads no file twice in a run, and by the end of its
\* loop has had loaded exactly the eligible files under the root.
C15_ScanLoadsEligibleFilesOnce ==
    pc \in {"loop", "idle"}
    => /\ \A k \in 1..Len(loaded) : Eligible(loaded[k])
       /\ \A k, l \in 1..Len(loaded) : k # l => loaded[k] # loaded[l]
       /\ (pc = "idle" /\ summaries # <<>>) \/ (pc = "loop" /\ idx > Len(all_files))
          => Range(loaded)
               = {dir[i].path : i \in {j \in 1..Len(dir) : Eligible(dir[j].path)}}

\* a run ended over a directory that holds a hidden file, a file of another
\* extension, a nested file whose extension is upper case, and nothing else
C15_Witness ==
    /\ pc = "idle"
    /\ summaries # <<>>
    /\ Len(dir) = 3
    /\ \E i \in 1..Len(dir) : dir[i].path.hidden
    /\ \E i \in 1..Len(dir) : dir[i].path.ext = "csv"
    /\ \E i \in 1..Len(dir) :
          dir[i].path.ext = "TXT" /\ Len(dir[i].path.folders) = 2
    /\ Len(loaded) = 1

\* C16: every result entry of index_directory with status "failed" records
\* the stage at which the document failed and the error message.
C16_FailedEntryHasStageAndError ==
    \A s \in 1..Len(summaries) :
       \A i \in 1..Len(summaries[s].results) :
          LET entry == summaries[s].results[i]
          IN Get(entry, "status", "") = "failed"
             => "stage" \in DOMAIN entry /\ "error" \in DOMAIN entry

ConstructionAttributes == {"chunk_size", "overlap", "separators", "splitter"}

\* C18: a chunk() call leaves every field of the shared chunker as it was,
\* reads only attributes set from the construction parameters, and gives the
\* document what a chunker freshly constructed with the same chunk_size and
\* overlap gives it, whatever documents went through the chunker before.
C18_ChunkerStateless ==
    [][ret'.op = "chunk"
       => /\ chunker' = chunker
          /\ ret'.reads \subseteq ConstructionAttributes
          /\ ret'.out = chunk(DocumentChunker(chunker.chunk_size,
                                              chunker.overlap).value,
                              ret'.args.text, ret'.args.metadata)]_vars

\* C19: insert_chunks with a chunk whose embedding is not of the store's
\* dimension, and search with such a query vector, raise without an insert or
\* a search call having gone to the store.
C19_DimensionMismatchRejected ==
    /\ (/\ ret.op = "insert_chunks"
        /\ \E i \in 1..Len(ret.args) :
             Len(ret.args[i].embedding) # EmbeddingDim)
       => ~ret.out.ok /\ calls = <<>>
    /\ (/\ ret.op = "search"
        /\ Len(ret.args.query_embedding) # EmbeddingDim)
       => ~ret.out.ok /\ calls = <<>>

\* the entries of rs with one of the statuses
WithStatus(rs, statuses) ==
    {i \in 1..Len(rs) : Get(rs[i], "status", "") \in statuses}

RECURSIVE ChunksOfSuccessful(_)
\* the sum of num_chunks over the entries with status "success"
ChunksOfSuccessful(rs) ==
    IF rs = <<>> THEN 0
    ELSE (IF Get(Head(rs), "status", "") = "success"
          THEN Head(rs).num_chunks ELSE 0) + ChunksOfSuccessful(Tail(rs))

\* C20: in every summary index_directory returns, results has one entry per
\* discovered file, in discovery order, total_documents is the number of
\* entries, successful, failed and the no-chunks entries add up to it, and
\* total_chunks is the sum of num_chunks over the "success" entries.
C20_SummaryAddsUp ==
    \A s \in 1..Len(summaries) :
       LET sm == summaries[s]
           rs == sm.results
       IN /\ Len(rs) = Len(Discovered)
          /\ \A i \in 1..Len(rs) :
               rs[i].file_path = PathStr(Discovered[i].path)
          /\ sm.total_documents = Len(rs)
          /\ sm.successful = Cardinality(WithStatus(rs, {"success"}))
          /\ sm.failed = Cardinality(WithStatus(rs, {"failed"}))
          /\ sm.successful + sm.failed
               + Cardinality(WithStatus(rs, {"No chunks", "no chunks"}))
             = sm.total_documents
          /\ sm.total_chunks = ChunksOfSuccessful(rs)

\* a summary came back for three discovered files, one of them unreadable
C20_Witness ==
    /\ summaries # <<>>
    /\ Len(summaries[1].results) = 3
    /\ summaries[1].total_documents = 3
    /\ \E i \in 1..Len(Discovered) : ~Discovered[i].readable

=============================================================================
